---- MODULE Spec2Model ----
(***************************************************************************)
(* A model of JxlConverter (src/main.py): the per-file conversion state    *)
(* machine convert_image, the batch driver run_conversion with its fold    *)
(* of outcomes into the per-directory counters, and the publication of    *)
(* the metrics files by _generate_metrics_file.                            *)
(*                                                                         *)
(* A path is a pair of a directory and a file name; a file name is the     *)
(* sequence of its dot-separated components (<<"photo","jpg">> is          *)
(* photo.jpg), so that appending ".jxl.tmp" and os.path.splitext are what  *)
(* they are in the code.  The external programs (cjxl, touch) and the      *)
(* operating system are the environment: their outcomes are chosen         *)
(* nondeterministically.  Wall-clock durations are not modelled.           *)
(***************************************************************************)
EXTENDS Integers, Sequences, FiniteSets, TLC

\* ------------------------------------------------------------------ bounds
\* run_conversion calls on one instance
MaxRuns == 2
\* tokens (known phrases or other text) in one error stream of the encoder
MaxErrTokens == 2
\* largest size in bytes of an encoded output
MaxConvSize == 2

\* ------------------------------------------------------------ configuration
None == "None"
\* no file at a path
Absent == [kind |-> "absent"]

\* no path (input_filepath outside a convert_image call)
NoPath == [dir |-> None, name |-> << >>]

\* no error stream was read
NoText == {None}

\* every directory that is a source directory in some setup
AllRoots == {"/r", "/r/sub"}

\* the directory tree below the roots (os.walk descends into these)
SubDirs(d) == IF d = "/r" THEN <<"/r/sub">> ELSE << >>

RECURSIVE WalkedDirs(_)
\* the directories os.walk(d) lists
WalkedDirs(d) == {d} \cup UNION { WalkedDirs(SubDirs(d)[i]) : i \in DOMAIN SubDirs(d) }

Path(d, n) == [dir |-> d, name |-> n]

\* the JPEG files that may be on disk when the instance is constructed: both
\* are photo.jxl once converted
Originals == { Path("/r/sub", <<"photo", "JPG">>), Path("/r/sub", <<"photo", "jpeg">>) }

\* str.lower() on the strings of the model
Lower(s) ==
  CASE s = "JPG" -> "jpg"
    [] s = "Error while decoding the JPEG image" -> "error while decoding the jpeg image"
    [] s = "Unsupported Input Type" -> "unsupported input type"
    [] s = "Out Of Memory" -> "out of memory"
    [] s = "EncodeImageJXL() failed" -> "encodeimagejxl() failed"
    [] OTHER -> s

Front(s) == SubSeq(s, 1, Len(s) - 1)
Last(s) == s[Len(s)]

\* input_filepath + ".jxl.tmp"
TempOutputPath(p) == Path(p.dir, p.name \o <<"jxl", "tmp">>)

\* os.path.splitext(input_filepath)[0] + ".jxl"
FinalJxlPath(p) == Path(p.dir, Front(p.name) \o <<"jxl">>)

\* file.lower().endswith(('.jpg', '.jpeg'))
Eligible(n) == Len(n) >= 2 /\ Lower(Last(n)) \in {"jpg", "jpeg"}

Paths ==
  Originals \cup { TempOutputPath(p) : p \in Originals }
            \cup { FinalJxlPath(p) : p \in Originals }

\* What a file holds: the image it shows (of), whether it is the JPEG or an
\* encoding of it, whether the encoding is whole, its size, its modification time.
OriginalFile(p) ==
  [kind |-> "jpeg", of |-> p.name, whole |-> TRUE,
   size |-> IF Last(p.name) = "JPG" THEN 2 ELSE 1,
   mtime |-> IF Last(p.name) = "JPG" THEN "monday" ELSE "tuesday"]

\* a JPEG XL file that was on disk before the instance was constructed
OldJxl == [kind |-> "jxl", of |-> <<"older">>, whole |-> TRUE, size |-> 1, mtime |-> "sunday"]

EncodedFile(p, sz, ok) ==
  [kind |-> "jxl", of |-> p.name, whole |-> ok, size |-> sz, mtime |-> "now"]


\* ------------------------------------------------------- failure classifier
\* The encoder's error stream is the set of the phrases it holds; a phrase of
\* the code in another letter case is another phrase.
ErrTokens ==
  { "Error while decoding the JPEG image", "error while decoding the jpeg image",
    "unsupported input type", "Unsupported Input Type",
    "out of memory", "Out Of Memory",
    "EncodeImageJXL() failed", "encodeimagejxl() failed",
    "Killed" }

ErrTexts(n) == { t \in SUBSET ErrTokens : Cardinality(t) <= n }

\* stderr_output.lower()
LowerText(t) == { Lower(x) : x \in t }

\* pattern in text
Contains(pattern, t) == pattern \in t

ClassifyOrderSwapped(stderr_output) ==
  IF Contains("unsupported input type", LowerText(stderr_output))
    THEN "unsupported_input_type"
  ELSE IF Contains("Error while decoding the JPEG image", stderr_output)
    THEN "corrupt_or_unsupported_jpeg"
  ELSE IF Contains("EncodeImageJXL() failed", stderr_output)
    THEN "cjxl_encoding_failed"
  ELSE IF Contains("out of memory", LowerText(stderr_output))
    THEN "cjxl_out_of_memory"
  ELSE "generic_cjxl_failure"

\* the if/elif chain on the encoder's error stream
Classify(stderr_output) ==
  IF Contains("Error while decoding the JPEG image", stderr_output)
    THEN "corrupt_or_unsupported_jpeg"
  ELSE IF Contains("unsupported input type", LowerText(stderr_output))
    THEN "unsupported_input_type"
  ELSE IF Contains("out of memory", LowerText(stderr_output))
    THEN "cjxl_out_of_memory"
  ELSE IF Contains("EncodeImageJXL() failed", stderr_output)
    THEN "cjxl_encoding_failed"
  ELSE "generic_cjxl_failure"

\* ------------------------------------------------------------------ metrics
SeqToSet(q) == { q[i] : i \in DOMAIN q }

\* Counter(): no key yet
EmptyCounter == [k \in {} |-> 0]

CounterAddSetsOne(c, k) == [x \in DOMAIN c \cup {k} |-> IF x = k THEN 1 ELSE c[x]]

\* counter[key] += 1
CounterAdd(c, k) ==
  [x \in DOMAIN c \cup {k} |-> IF x = k THEN (IF k \in DOMAIN c THEN c[k] + 1 ELSE 1) ELSE c[x]]

InitialMetrics ==
  [total_conversions |-> 0, successful_conversions |-> 0, failed_conversions |-> 0,
   failed_reasons |-> EmptyCounter, total_space_saved_bytes |-> 0,
   last_interval_space_saved_bytes |-> 0, total_original_bytes_processed |-> 0,
   total_converted_bytes_processed |-> 0]

\* the outcome tuple as convert_image initialises it
InitialOutcome ==
  [success |-> FALSE, original_size |-> 0, converted_size |-> 0, error_tag |-> None,
   full_error_message |-> None]

ReasonKeyFromMessage(error_tag) ==
  IF error_tag = None THEN "unknown_error" ELSE "cjxl failed with exit code 1"

\* reason_key = error_tag if error_tag else "unknown_error"
ReasonKey(error_tag) == IF error_tag = None THEN "unknown_error" ELSE error_tag

RecordOutcomeNoFailedCount(m, o) ==
  IF o.success
    THEN [m EXCEPT !.total_conversions = @ + 1, !.successful_conversions = @ + 1]
    ELSE [m EXCEPT !.total_conversions = @ + 1,
                   !.failed_reasons = CounterAdd(@, ReasonKey(o.error_tag))]

RecordOutcomeSavingNeverNegative(m, o) ==
  IF o.success
    THEN [m EXCEPT !.total_conversions = @ + 1,
                   !.successful_conversions = @ + 1,
                   !.total_space_saved_bytes =
                      @ + (IF o.original_size > o.converted_size
                             THEN o.original_size - o.converted_size ELSE 0),
                   !.last_interval_space_saved_bytes = @ + (o.original_size - o.converted_size),
                   !.total_original_bytes_processed = @ + o.original_size,
                   !.total_converted_bytes_processed = @ + o.converted_size]
    ELSE [m EXCEPT !.total_conversions = @ + 1,
                   !.failed_conversions = @ + 1,
                   !.failed_reasons = CounterAdd(@, ReasonKey(o.error_tag))]

RecordOutcomeCountsBytesOfFailures(m, o) ==
  IF o.success
    THEN [m EXCEPT !.total_conversions = @ + 1,
                   !.successful_conversions = @ + 1,
                   !.total_space_saved_bytes = @ + (o.original_size - o.converted_size),
                   !.last_interval_space_saved_bytes = @ + (o.original_size - o.converted_size),
                   !.total_original_bytes_processed = @ + o.original_size,
                   !.total_converted_bytes_processed = @ + o.converted_size]
    ELSE [m EXCEPT !.total_conversions = @ + 1,
                   !.failed_conversions = @ + 1,
                   !.failed_reasons = CounterAdd(@, ReasonKey(o.error_tag)),
                   !.total_original_bytes_processed = @ + o.original_size,
                   !.total_converted_bytes_processed = @ + o.converted_size]

\* the update of one directory's counters with one outcome
RecordOutcome(m, o) ==
  IF o.success
    THEN [m EXCEPT !.total_conversions = @ + 1,
                   !.successful_conversions = @ + 1,
                   !.total_space_saved_bytes = @ + (o.original_size - o.converted_size),
                   !.last_interval_space_saved_bytes = @ + (o.original_size - o.converted_size),
                   !.total_original_bytes_processed = @ + o.original_size,
                   !.total_converted_bytes_processed = @ + o.converted_size]
    ELSE [m EXCEPT !.total_conversions = @ + 1,
                   !.failed_conversions = @ + 1,
                   !.failed_reasons = CounterAdd(@, ReasonKey(o.error_tag))]

\* reason.replace(" ", "_").replace("-", "_").lower(): the tags hold no blank and no dash
StandardizedReason(reason) == Lower(reason)

Line(family, d, reason, value) ==
  [family |-> family, directory |-> d, reason |-> reason, value |-> value]

RenderPlaceholderAlways(d, m) ==
  { Line("jpeg_to_jxl_conversions_total", d, None, m.total_conversions),
    Line("jpeg_to_jxl_conversions_failed_total", d, "none", 0) }
  \cup { Line("jpeg_to_jxl_conversions_failed_total", d, StandardizedReason(k),
               m.failed_reasons[k]) : k \in DOMAIN m.failed_reasons }

\* the sample lines of one directory's metrics file (their order and the HELP
\* and TYPE comments are not modelled)
Render(d, m) ==
  { Line("jpeg_to_jxl_conversions_total", d, None, m.total_conversions),
    Line("jpeg_to_jxl_conversions_successful_total", d, None, m.successful_conversions),
    Line("jpeg_to_jxl_space_saved_bytes_total", d, None, m.total_space_saved_bytes),
    Line("jpeg_to_jxl_space_saved_bytes_last_interval", d, None,
         m.last_interval_space_saved_bytes),
    Line("jpeg_to_jxl_original_bytes_processed_total", d, None,
         m.total_original_bytes_processed),
    Line("jpeg_to_jxl_converted_bytes_processed_total", d, None,
         m.total_converted_bytes_processed) }
  \cup
  ( IF DOMAIN m.failed_reasons = {}
      THEN { Line("jpeg_to_jxl_conversions_failed_total", d, "none", 0) }
      ELSE { Line("jpeg_to_jxl_conversions_failed_total", d, StandardizedReason(k),
                  m.failed_reasons[k]) : k \in DOMAIN m.failed_reasons } )

\* metrics_root_directory/jxl_conversion_metrics_<md5 of the directory>.prom
MetricsFilePath(d) == <<d, "prom">>

TempMetricsFilePathInPlace(metrics_file_path) == metrics_file_path

\* metrics_file_path + ".tmp"
TempMetricsFilePath(metrics_file_path) == Append(metrics_file_path, "tmp")

PromPaths ==
  { MetricsFilePath(d) : d \in AllRoots } \cup
  { Append(MetricsFilePath(d), "tmp") : d \in AllRoots }

\* a file just opened for writing
EmptyFile == [whole |-> FALSE, lines |-> {}]


\* -------------------------------------------------------------------- state
VARIABLES
  setup,          \* the installation and its environment, fixed at construction
  fs,             \* the image directories: path -> file, or Absent
  fs0,            \* fs when the instance was constructed (history)
  promfs,         \* the metrics directory: path -> file, or Absent
  metrics_data,   \* directory -> its counters
  pc,             \* where the process stands
  runs,           \* run_conversion calls started
  roots_left,     \* run_conversion: directories of the outer loop still to do, current first
  walk_dirs,      \* os.walk: directories still to list, next first
  files,          \* os.walk: eligible files of the listed directory still to do
  cur,            \* convert_image: input_filepath, or NoPath
  out,            \* convert_image: success, original_size, converted_size, error_tag
  stderr_output,  \* convert_image: the encoder's error stream, or NoText
  trail,          \* the steps the current convert_image call took (history)
  pre_fs,         \* fs when the current convert_image call began (history)
  attempted,      \* every convert_image call so far: run, directory, path, outcome (history)
  pub_left,       \* _generate_metrics_file: directories still to publish, current first
  pub_tried,      \* directories whose publication was attempted in this run (history)
  pub_failed      \* directories whose publication failed in this run (history)

vars ==
  <<setup, fs, fs0, promfs, metrics_data, pc, runs, roots_left, walk_dirs, files, cur,
    out, stderr_output, trail, pre_fs, attempted, pub_left, pub_tried, pub_failed>>

conv_vars == <<cur, out, stderr_output, trail, pre_fs>>
walk_vars == <<roots_left, walk_dirs, files>>
pub_vars == <<promfs, pub_left, pub_tried, pub_failed>>

\* The installations explored.  source_dirs: source_directories as given on
\* the command line; present: the JPEG files on disk; runs: how many times
\* run_conversion is called on the instance; os_errors: whether calls of the
\* operating system may fail (OSError, IOError); tokens: how many phrases an
\* error stream of the encoder may hold.
Setups ==
  { \* one directory with two photos of the same base name, any environment
    [source_dirs |-> <<"/r/sub">>, present |-> Originals, runs |-> 1,
     os_errors |-> TRUE, tokens |-> MaxErrTokens],
    \* a directory and its subdirectory both given, one photo, any environment
    [source_dirs |-> <<"/r", "/r/sub">>,
     present |-> { Path("/r/sub", <<"photo", "JPG">>) }, runs |-> 1,
     os_errors |-> TRUE, tokens |-> 1],
    \* one directory with two photos, converted again and again, on an
    \* operating system that does not fail
    [source_dirs |-> <<"/r/sub">>, present |-> Originals, runs |-> MaxRuns,
     os_errors |-> FALSE, tokens |-> 0],
    \* one directory with one photo, converted again and again, any environment
    [source_dirs |-> <<"/r/sub">>, present |-> { Path("/r/sub", <<"photo", "jpeg">>) },
     runs |-> MaxRuns, os_errors |-> TRUE, tokens |-> 0] }

SourceDirs == setup.source_dirs
Roots == SeqToSet(SourceDirs)

\* the state after JxlConverter(source_directories, metrics_root_directory)
Init ==
  /\ setup \in Setups
  /\ fs \in { [p \in Paths |-> IF p \in setup.present THEN OriginalFile(p)
                               ELSE IF p \in old THEN OldJxl ELSE Absent] :
              old \in SUBSET { FinalJxlPath(p) : p \in Originals } }
  /\ fs0 = fs
  /\ promfs = [p \in PromPaths |-> Absent]
  /\ metrics_data = [d \in Roots |-> InitialMetrics]
  /\ pc = "idle"
  /\ runs = 0
  /\ roots_left = << >>
  /\ walk_dirs = << >>
  /\ files = {}
  /\ cur = NoPath
  /\ out = InitialOutcome
  /\ stderr_output = NoText
  /\ trail = << >>
  /\ pre_fs = fs
  /\ attempted = << >>
  /\ pub_left = << >>
  /\ pub_tried = {}
  /\ pub_failed = {}

\* a call of the operating system may fail here
OSError == setup.os_errors

Step(s) == trail' = Append(trail, s)

\* ----------------------------------------------------------- run_conversion
ResetLastIntervalKeeps(m) == m

\* metrics['last_interval_space_saved_bytes'] = 0
ResetLastInterval(m) == [m EXCEPT !.last_interval_space_saved_bytes = 0]

\* a call of run_conversion begins: the last-interval counters are reset
StartRun ==
  /\ pc = "idle"
  /\ runs < setup.runs
  /\ runs' = runs + 1
  /\ metrics_data' = [d \in DOMAIN metrics_data |-> ResetLastInterval(metrics_data[d])]
  /\ roots_left' = SourceDirs
  /\ pub_tried' = {}
  /\ pub_failed' = {}
  /\ pc' = "roots"
  /\ UNCHANGED <<setup, fs, fs0, promfs, walk_dirs, files, pub_left, attempted>>
  /\ UNCHANGED conv_vars

\* for source_dir, metrics in self.metrics_data.items(): the next directory
NextRoot ==
  /\ pc = "roots"
  /\ roots_left # << >>
  /\ walk_dirs' = <<Head(roots_left)>>
  /\ files' = {}
  /\ pc' = "walk"
  /\ UNCHANGED <<setup, fs, fs0, metrics_data, runs, roots_left, attempted>>
  /\ UNCHANGED conv_vars
  /\ UNCHANGED pub_vars

PublishedDirsFirstOnly == <<Head(SourceDirs)>>

\* for source_dir, metrics in self.metrics_data.items(), in _generate_metrics_file
PublishedDirs == SourceDirs

\* the outer loop is over: _generate_metrics_file is called
RootsDone ==
  /\ pc = "roots"
  /\ roots_left = << >>
  /\ pub_left' = PublishedDirs
  /\ pc' = "publish"
  /\ UNCHANGED <<setup, fs, fs0, promfs, metrics_data, runs, attempted, pub_tried,
                  pub_failed>>
  /\ UNCHANGED conv_vars
  /\ UNCHANGED walk_vars

EligibleFilesInLowerCaseOnly(d) ==
  { p \in Paths : p.dir = d /\ fs[p] # Absent /\ Last(p.name) \in {"jpg", "jpeg"} }

\* the files of directory d that pass the filter on the extension
EligibleFilesIn(d) == { p \in Paths : p.dir = d /\ fs[p] # Absent /\ Eligible(p.name) }

\* os.walk lists the next directory, top-down; the files are filtered by extension
WalkDir ==
  /\ pc = "walk"
  /\ files = {}
  /\ walk_dirs # << >>
  /\ LET d == Head(walk_dirs) IN
       /\ files' = EligibleFilesIn(d)
       /\ walk_dirs' = SubDirs(d) \o Tail(walk_dirs)
  /\ UNCHANGED <<setup, fs, fs0, metrics_data, pc, runs, roots_left, attempted>>
  /\ UNCHANGED conv_vars
  /\ UNCHANGED pub_vars

\* os.walk is exhausted for this source directory
WalkDone ==
  /\ pc = "walk"
  /\ files = {}
  /\ walk_dirs = << >>
  /\ roots_left' = Tail(roots_left)
  /\ pc' = "roots"
  /\ UNCHANGED <<setup, fs, fs0, metrics_data, runs, walk_dirs, files, attempted>>
  /\ UNCHANGED conv_vars
  /\ UNCHANGED pub_vars

\* the next file of the listing, in the order the operating system gave
\* them: convert_image is called on it
PickFile ==
  /\ pc = "walk"
  /\ \E p \in files :
       /\ files' = files \ {p}
       /\ cur' = p
  /\ out' = InitialOutcome
  /\ stderr_output' = NoText
  /\ trail' = << >>
  /\ pre_fs' = fs
  /\ pc' = "probe"
  /\ UNCHANGED <<setup, fs, fs0, metrics_data, runs, roots_left, walk_dirs, attempted>>
  /\ UNCHANGED pub_vars


\* ------------------------------------------------------------ convert_image
Temp == TempOutputPath(cur)
Final == FinalJxlPath(cur)

FailWithoutTag(tag) ==
  out' = [out EXCEPT !.success = FALSE, !.full_error_message = "message"]

\* a handler sets success, error_tag and full_error_message (its text is not modelled)
Fail(tag) ==
  out' = [out EXCEPT !.success = FALSE, !.error_tag = tag, !.full_error_message = "message"]

\* what is left at the temporary path by an encoder that did not succeed
FailedEncoderLeaves == { fs[Temp], EncodedFile(cur, 1, FALSE) }

conv_frame == UNCHANGED <<setup, fs0, metrics_data, runs, attempted, cur, pre_fs>>
                /\ UNCHANGED walk_vars /\ UNCHANGED pub_vars

\* original_size = os.path.getsize(input_filepath); an OSError returns at once,
\* before the try block whose finally clause cleans up
Probe ==
  /\ pc = "probe"
  /\ \/ /\ fs[cur] # Absent
        /\ out' = [out EXCEPT !.original_size = fs[cur].size]
        /\ Step("probe_ok")
        /\ pc' = "encode"
     \/ /\ fs[cur] = Absent \/ OSError
        /\ out' = [success |-> FALSE, original_size |-> 0, converted_size |-> 0,
                   error_tag |-> "file_system_error", full_error_message |-> "message"]
        /\ Step("probe_failed")
        /\ pc' = "fold"
  /\ UNCHANGED <<fs, stderr_output>>
  /\ conv_frame

InvocationErrorTagAlwaysNotFound(exception) == "cjxl_not_found"

\* the except clauses around the encoder's invocation; subprocess.run is
\* called with check=False and raises no CalledProcessError
InvocationErrorTag(exception) ==
  IF exception = "FileNotFoundError" THEN "cjxl_not_found" ELSE "unexpected_python_error"

\* subprocess.run raises FileNotFoundError: no executable at cjxl_path
EncoderNotFound ==
  /\ pc = "encode"
  /\ Fail(InvocationErrorTag("FileNotFoundError"))
  /\ Step("encoder_not_found")
  /\ pc' = "cleanup"
  /\ UNCHANGED <<fs, stderr_output>>
  /\ conv_frame

\* subprocess.run raises PermissionError: the file at cjxl_path is not
\* executable; the handler that takes it is "except Exception"
EncoderNotExecutable ==
  /\ pc = "encode"
  /\ Fail(InvocationErrorTag("PermissionError"))
  /\ Step("encoder_not_executable")
  /\ pc' = "cleanup"
  /\ UNCHANGED <<fs, stderr_output>>
  /\ conv_frame

\* subprocess.run raises another exception after the encoder ran (its output
\* is not decodable text): "except Exception"
EncoderUnexpected ==
  /\ pc = "encode"
  /\ \E left \in FailedEncoderLeaves \cup { EncodedFile(cur, MaxConvSize, TRUE) } :
       fs' = [fs EXCEPT ![Temp] = left]
  /\ Fail(InvocationErrorTag("UnicodeDecodeError"))
  /\ Step("encoder_unexpected")
  /\ pc' = "cleanup"
  /\ UNCHANGED stderr_output
  /\ conv_frame

\* the encoder exits non-zero: the error stream is classified
EncoderFailed ==
  /\ pc = "encode"
  /\ \E text \in ErrTexts(setup.tokens), left \in FailedEncoderLeaves :
       /\ fs' = [fs EXCEPT ![Temp] = left]
       /\ stderr_output' = text
       /\ Fail(Classify(text))
  /\ Step("encoder_nonzero")
  /\ pc' = "cleanup"
  /\ conv_frame

\* the encoder exits 0 and has written the temporary output
EncoderOk ==
  /\ pc = "encode"
  /\ \E sz \in 1..MaxConvSize : fs' = [fs EXCEPT ![Temp] = EncodedFile(cur, sz, TRUE)]
  /\ Step("encoder_ok")
  /\ pc' = "getsize"
  /\ UNCHANGED <<out, stderr_output>>
  /\ conv_frame

FinalizeErrorTagOfTimestampHandler == "timestamp_preservation_failed"

\* error_tag in the handler of an OSError after the encoder's success
FinalizeErrorTag == "file_system_error"

\* converted_size = os.path.getsize(temp_output_filepath)
GetConvertedSize ==
  /\ pc = "getsize"
  /\ \/ /\ fs[Temp] # Absent
        /\ out' = [out EXCEPT !.converted_size = fs[Temp].size]
        /\ Step("getsize_ok")
        /\ pc' = "rename"
     \/ /\ OSError
        /\ Fail(FinalizeErrorTag)
        /\ Step("getsize_failed")
        /\ pc' = "cleanup"
  /\ UNCHANGED <<fs, stderr_output>>
  /\ conv_frame

\* os.rename(from, to) on POSIX: a file at the target is replaced
Rename(from, to) == [fs EXCEPT ![to] = fs[from], ![from] = Absent]

\* os.rename(temp_output_filepath, final_jxl_filepath)
FinalizeRename ==
  /\ pc = "rename"
  /\ \/ /\ fs' = Rename(Temp, Final)
        /\ Step("rename_ok")
        /\ pc' = "touch"
        /\ UNCHANGED out
     \/ /\ OSError
        /\ Fail(FinalizeErrorTag)
        /\ Step("rename_failed")
        /\ pc' = "cleanup"
        /\ UNCHANGED fs
  /\ UNCHANGED stderr_output
  /\ conv_frame

TouchKeepsTime(from, to) == fs

\* touch -r from to: the modification time of from is given to to
TouchR(from, to) == [fs EXCEPT ![to].mtime = fs[from].mtime]

TimestampErrorTagOfOuterHandler == "file_system_error"

\* error_tag in the handler of the timestamp step
TimestampErrorTag == "timestamp_preservation_failed"

\* subprocess.run(['touch', '-r', input_filepath, final_jxl_filepath], check=True)
PreserveTimestamp ==
  /\ pc = "touch"
  /\ \/ /\ fs' = TouchR(cur, Final)
        /\ Step("touch_ok")
        /\ pc' = "rm_orig"
        /\ UNCHANGED out
     \/ \E why \in {"touch_not_found", "touch_nonzero", "touch_other_exception"} :
          /\ Fail(TimestampErrorTag)
          /\ Step(why)
          /\ pc' = "rm_final"
          /\ UNCHANGED fs
  /\ UNCHANGED stderr_output
  /\ conv_frame

RemovedOnSuccessIsTemp == Temp

\* the file that is removed once the timestamp is copied
RemovedOnSuccess == cur

\* os.remove(input_filepath); an OSError is taken by the handler of the
\* timestamp step
RemoveOriginal ==
  /\ pc = "rm_orig"
  /\ \/ /\ fs' = [fs EXCEPT ![RemovedOnSuccess] = Absent]
        /\ out' = [out EXCEPT !.success = TRUE]
        /\ Step("remove_original_ok")
        /\ pc' = "cleanup"
     \/ /\ OSError
        /\ Fail(TimestampErrorTag)
        /\ Step("remove_original_failed")
        /\ pc' = "rm_final"
        /\ UNCHANGED fs
  /\ UNCHANGED stderr_output
  /\ conv_frame

RemovedOnFailureIsInput == cur

\* the file the handler of the timestamp step removes
RemovedOnFailure == Final

\* os.remove(final_jxl_filepath) in the handler; an OSError is logged
RemoveFinal ==
  /\ pc = "rm_final"
  /\ \/ /\ fs' = [fs EXCEPT ![RemovedOnFailure] = Absent]
        /\ Step("remove_final_ok")
     \/ /\ OSError
        /\ Step("remove_final_failed")
        /\ UNCHANGED fs
  /\ pc' = "cleanup"
  /\ UNCHANGED <<out, stderr_output>>
  /\ conv_frame

RemovedInFinallyIsFinal == Final

RemovedInFinallyIsInput == cur

\* the file the finally clause removes
RemovedInFinally == Temp

\* finally: the temporary output is removed if it exists; an OSError is logged
Cleanup ==
  /\ pc = "cleanup"
  /\ \/ /\ fs[Temp] = Absent
        /\ Step("no_temp")
        /\ UNCHANGED fs
     \/ /\ fs[Temp] # Absent
        /\ fs' = [fs EXCEPT ![RemovedInFinally] = Absent]
        /\ Step("cleanup_ok")
     \/ /\ fs[Temp] # Absent
        /\ OSError
        /\ Step("cleanup_failed")
        /\ UNCHANGED fs
  /\ pc' = "fold"
  /\ UNCHANGED <<out, stderr_output>>
  /\ conv_frame

\* back in run_conversion: the outcome is folded into the counters of the
\* source directory that is being walked
Fold ==
  /\ pc = "fold"
  /\ LET d == Head(roots_left) IN
       /\ metrics_data' = [metrics_data EXCEPT ![d] = RecordOutcome(@, out)]
       /\ attempted' = Append(attempted,
                               [run |-> runs, dir |-> d, path |-> cur,
                                success |-> out.success, tag |-> out.error_tag,
                                original_size |-> out.original_size,
                                converted_size |-> out.converted_size])
  /\ cur' = NoPath
  /\ out' = InitialOutcome
  /\ stderr_output' = NoText
  /\ trail' = << >>
  /\ pre_fs' = fs
  /\ pc' = "walk"
  /\ UNCHANGED <<setup, fs, fs0, runs>>
  /\ UNCHANGED walk_vars
  /\ UNCHANGED pub_vars

\* --------------------------------------------------- _generate_metrics_file
PubPath == MetricsFilePath(Head(pub_left))
PubTemp == TempMetricsFilePath(PubPath)

pub_frame == UNCHANGED <<setup, fs, fs0, metrics_data, runs, attempted>>
               /\ UNCHANGED conv_vars /\ UNCHANGED walk_vars

\* open(temp_metrics_file_path, "w"): the file is created or truncated
PubOpen ==
  /\ pc = "publish"
  /\ pub_left # << >>
  /\ pub_tried' = pub_tried \cup {Head(pub_left)}
  /\ \/ /\ promfs' = [promfs EXCEPT ![PubTemp] = EmptyFile]
        /\ pc' = "pub_write"
        /\ UNCHANGED pub_left
        /\ UNCHANGED pub_failed
     \/ /\ OSError
        /\ pub_failed' = pub_failed \cup {Head(pub_left)}
        /\ pub_left' = Tail(pub_left)
        /\ UNCHANGED <<promfs, pc>>
  /\ pub_frame

\* f.write(...) and the close of the file; an IOError leaves a part of the text
PubWrite ==
  /\ pc = "pub_write"
  /\ \/ /\ promfs' = [promfs EXCEPT ![PubTemp] =
                        [whole |-> TRUE,
                         lines |-> Render(Head(pub_left), metrics_data[Head(pub_left)])]]
        /\ pc' = "pub_replace"
        /\ UNCHANGED pub_left
        /\ UNCHANGED pub_failed
     \/ /\ OSError
        /\ pub_failed' = pub_failed \cup {Head(pub_left)}
        /\ pub_left' = Tail(pub_left)
        /\ pc' = "publish"
        /\ UNCHANGED promfs
  /\ UNCHANGED pub_tried
  /\ pub_frame

\* os.replace(temp_metrics_file_path, metrics_file_path)
PubReplace ==
  /\ pc = "pub_replace"
  /\ \/ /\ promfs' = IF PubTemp = PubPath THEN promfs
                     ELSE [promfs EXCEPT ![PubPath] = promfs[PubTemp], ![PubTemp] = Absent]
        /\ UNCHANGED pub_failed
     \/ /\ OSError
        /\ pub_failed' = pub_failed \cup {Head(pub_left)}
        /\ UNCHANGED promfs
  /\ pub_left' = Tail(pub_left)
  /\ pc' = "publish"
  /\ UNCHANGED pub_tried
  /\ pub_frame

\* every directory was handled: run_conversion returns
PubDone ==
  /\ pc = "publish"
  /\ pub_left = << >>
  /\ pc' = "idle"
  /\ UNCHANGED <<pub_left, pub_tried, pub_failed, promfs>>
  /\ pub_frame

\* the process is killed while it publishes
Interrupt ==
  /\ pc \in {"publish", "pub_write", "pub_replace"}
  /\ pc' = "killed"
  /\ UNCHANGED <<pub_left, pub_tried, pub_failed, promfs>>
  /\ pub_frame

\* ------------------------------------------------------------ specification
Next ==
  \/ StartRun \/ NextRoot \/ RootsDone \/ WalkDir \/ WalkDone \/ PickFile
  \/ Probe \/ EncoderNotFound \/ EncoderNotExecutable \/ EncoderUnexpected
  \/ EncoderFailed \/ EncoderOk \/ GetConvertedSize \/ FinalizeRename
  \/ PreserveTimestamp \/ RemoveOriginal \/ RemoveFinal \/ Cleanup \/ Fold
  \/ PubOpen \/ PubWrite \/ PubReplace \/ PubDone \/ Interrupt

Spec == Init /\ [][Next]_vars


\* The process keeps executing: it is one thread, and the external programs
\* it waits for are taken to return.
LiveSpec == Init /\ [][Next]_vars /\ WF_vars(Next)

\* ------------------------------------------------------------------- claims
InTrail(s) == \E i \in DOMAIN trail : trail[i] = s

\* convert_image has returned and its outcome is not folded yet
Returned == pc = "fold"

\* f is an encoding of the photo at path p
IsReplacementOf(f, p) == f.kind = "jxl" /\ f.of = p.name

OriginalUntouched == fs[cur] # Absent /\ fs[cur] = pre_fs[cur]

\* C1 as stated: after every convert_image call that returns success=False,
\* whichever step failed, the original exists unchanged and no finalized
\* replacement of it exists.
C1_FailureLeavesNoReplacement ==
  (Returned /\ ~out.success) =>
    OriginalUntouched /\ ~IsReplacementOf(fs[Final], cur)

\* C1 as amended: after every convert_image call that returns success=False
\* the original exists unchanged, and a finalized replacement that the call
\* produced exists only when the removal of the finalized file itself failed.
C1_FailureKeepsOriginal ==
  (Returned /\ ~out.success) =>
    /\ OriginalUntouched
    /\ (IsReplacementOf(fs[Final], cur) /\ fs[Final] # pre_fs[Final])
         => InTrail("remove_final_failed")

\* a failed call whose removal of the finalized file failed: both files are there
C1_Witness ==
  /\ Returned /\ ~out.success
  /\ InTrail("remove_final_failed")
  /\ fs[cur] # Absent
  /\ IsReplacementOf(fs[Final], cur)

\* C2: after every convert_image call that returns success=True the original
\* is gone, the finalized replacement is at <base>.jxl, no temporary output
\* remains, and the replacement bears the original's modification time.
C2_SuccessReplaces ==
  (Returned /\ out.success) =>
    /\ fs[cur] = Absent
    /\ IsReplacementOf(fs[Final], cur)
    /\ fs[Final].whole
    /\ fs[Temp] = Absent
    /\ fs[Final].mtime = pre_fs[cur].mtime

C2_Witness ==
  /\ Returned /\ out.success
  /\ pre_fs[cur].mtime = "monday"
  /\ fs[Final].mtime = "monday"

\* C3 as stated: no image is ever lost: every image that was on disk at
\* construction, a JPEG or a JPEG XL file, is still there as itself or as its
\* own encoding.
C3_NoImageLost ==
  \A p \in Paths :
    fs0[p] # Absent =>
      \E q \in Paths : fs[q] # Absent /\ fs[q].whole /\ fs[q].of = fs0[p].of

\* C4: for every monitored root, total_conversions = successful_conversions +
\* failed_conversions, initially, after every fold and at publish time.
C4_TotalIsSum ==
  \A d \in Roots :
    metrics_data[d].total_conversions =
      metrics_data[d].successful_conversions + metrics_data[d].failed_conversions

\* the second run publishes counters that hold successes and failures
C4_Witness ==
  /\ pc = "publish" /\ runs >= 2
  /\ \E d \in Roots :
       /\ metrics_data[d].successful_conversions >= 1
       /\ metrics_data[d].failed_conversions >= 2

Rendered(d) == [whole |-> TRUE, lines |-> Render(d, metrics_data[d])]

\* C5: in every step, also one in which the write fails or the process is
\* killed, the file at the final metrics path stays as it is or becomes the
\* complete new render.
C5_AtomicPublish ==
  [][ \A d \in AllRoots :
        \/ promfs'[MetricsFilePath(d)] = promfs[MetricsFilePath(d)]
        \/ promfs'[MetricsFilePath(d)] = Rendered(d) ]_vars

\* killed between the write of the temporary file and the replace, with the
\* previous render in place
C5_Witness ==
  /\ pc = "killed"
  /\ \E d \in Roots :
       /\ promfs[MetricsFilePath(d)] # Absent
       /\ promfs[MetricsFilePath(d)].whole
       /\ promfs[Append(MetricsFilePath(d), "tmp")] = Rendered(d)
       /\ promfs[MetricsFilePath(d)] # Rendered(d)

TouchFailed ==
  InTrail("touch_not_found") \/ InTrail("touch_nonzero") \/ InTrail("touch_other_exception")

\* C6 as stated: when the timestamp copy fails after the rename, the call
\* returns success=False with timestamp_preservation_failed, the finalized
\* output is deleted and the original is untouched.
C6_TimestampFailureDeletesOutput ==
  (Returned /\ TouchFailed) =>
    /\ ~out.success
    /\ out.error_tag = "timestamp_preservation_failed"
    /\ fs[Final] = Absent
    /\ OriginalUntouched

\* C6 as amended: ... the finalized output is deleted unless its removal
\* fails with an error of the operating system, and the original is untouched.
C6_TimestampFailure ==
  (Returned /\ TouchFailed) =>
    /\ ~out.success
    /\ out.error_tag = "timestamp_preservation_failed"
    /\ fs[Final] = Absent \/ InTrail("remove_final_failed")
    /\ OriginalUntouched

C6_Witness ==
  /\ Returned /\ InTrail("touch_not_found")
  /\ out.error_tag = "timestamp_preservation_failed"
  /\ fs[Final] = Absent
  /\ fs[cur] # Absent

\* the table of C7: pattern, whether letter case is ignored, tag
PriorityTable ==
  << [pattern |-> "Error while decoding the JPEG image", any_case |-> FALSE,
      tag |-> "corrupt_or_unsupported_jpeg"],
     [pattern |-> "unsupported input type", any_case |-> TRUE,
      tag |-> "unsupported_input_type"],
     [pattern |-> "out of memory", any_case |-> TRUE, tag |-> "cjxl_out_of_memory"],
     [pattern |-> "EncodeImageJXL() failed", any_case |-> FALSE,
      tag |-> "cjxl_encoding_failed"] >>

Matches(row, text) ==
  IF row.any_case THEN \E x \in text : Lower(x) = Lower(row.pattern)
                  ELSE row.pattern \in text

FirstMatchTag(text) ==
  IF \E i \in DOMAIN PriorityTable : Matches(PriorityTable[i], text)
    THEN PriorityTable[CHOOSE i \in DOMAIN PriorityTable :
                         /\ Matches(PriorityTable[i], text)
                         /\ \A j \in 1..(i - 1) : ~Matches(PriorityTable[j], text)].tag
    ELSE "generic_cjxl_failure"

\* C7: after a non-zero exit of the encoder the reason tag is that of the
\* first row of the table that matches the error stream, generic_cjxl_failure
\* when none does, and the original is untouched.
C7_FirstMatchWins ==
  (pc \in {"cleanup", "fold"} /\ stderr_output # NoText) =>
    /\ ~out.success
    /\ out.error_tag = FirstMatchTag(stderr_output)
    /\ OriginalUntouched

\* an error stream that matches the third and the fourth row
C7_Witness ==
  /\ Returned
  /\ stderr_output = {"EncodeImageJXL() failed", "Out Of Memory"}
  /\ out.error_tag = "cjxl_out_of_memory"

ClaimedTags ==
  { "file_system_error", "cjxl_not_found", "corrupt_or_unsupported_jpeg",
    "unsupported_input_type", "cjxl_out_of_memory", "cjxl_encoding_failed",
    "generic_cjxl_failure", "timestamp_preservation_failed", "unexpected_error" }

CodeTags == (ClaimedTags \ {"unexpected_error"}) \cup {"unexpected_python_error"}

FailedLabels ==
  { l.reason : l \in { x \in UNION { promfs[p].lines : p \in { q \in PromPaths :
                                                                promfs[q] # Absent } } :
                       x.family = "jpeg_to_jxl_conversions_failed_total" } }

HistogramKeys == UNION { DOMAIN metrics_data[d].failed_reasons : d \in Roots }

UnexpectedDuringInvocation ==
  InTrail("encoder_unexpected") \/ InTrail("encoder_not_executable")

\* C8 as stated: every histogram key and every published reason label other
\* than "none" is one of the nine tags of the specification or the unknown
\* fallback, and an unexpected exception during the encoder's invocation is
\* recorded under unexpected_error.
C8_ClosedTagSet ==
  /\ HistogramKeys \subseteq ClaimedTags \cup {"unknown_error"}
  /\ FailedLabels \subseteq ClaimedTags \cup {"unknown_error", "none"}
  /\ (Returned /\ UnexpectedDuringInvocation) => out.error_tag = "unexpected_error"

\* C8 as amended: the same with unexpected_python_error, the tag of the code,
\* in the place of unexpected_error.
C8_ClosedTagSetOfCode ==
  /\ HistogramKeys \subseteq CodeTags \cup {"unknown_error"}
  /\ FailedLabels \subseteq CodeTags \cup {"unknown_error", "none"}
  /\ (Returned /\ UnexpectedDuringInvocation) => out.error_tag = "unexpected_python_error"

\* an unexpected exception was counted and published
C8_Witness ==
  /\ "unexpected_python_error" \in HistogramKeys
  /\ "unexpected_python_error" \in FailedLabels

\* C9 as stated: an encoder that cannot be launched, not found or not
\* executable, gives success=False with cjxl_not_found, original untouched.
C9_LaunchFailureIsNotFound ==
  (Returned /\ (InTrail("encoder_not_found") \/ InTrail("encoder_not_executable"))) =>
    /\ ~out.success
    /\ out.error_tag = "cjxl_not_found"
    /\ OriginalUntouched

\* C9 as amended: an encoder that is not found gives cjxl_not_found, one that
\* is not executable gives unexpected_python_error; both give success=False
\* and leave the original untouched.
C9_LaunchFailure ==
  /\ (Returned /\ InTrail("encoder_not_found")) =>
       ~out.success /\ out.error_tag = "cjxl_not_found" /\ OriginalUntouched
  /\ (Returned /\ InTrail("encoder_not_executable")) =>
       ~out.success /\ out.error_tag = "unexpected_python_error" /\ OriginalUntouched

C9_Witness ==
  /\ Returned /\ InTrail("encoder_not_executable")
  /\ out.error_tag = "unexpected_python_error"
  /\ fs[cur] # Absent

\* every eligible file was attempted: one that is still on disk in this run
\* under every root that holds it, one that is gone with success
AllEligibleAttempted ==
  \A p \in setup.present :
    IF fs[p] = Absent
      THEN \E i \in DOMAIN attempted : attempted[i].path = p /\ attempted[i].success
      ELSE \A d \in Roots :
             p.dir \in WalkedDirs(d) =>
               \E i \in DOMAIN attempted :
                 attempted[i].run = runs /\ attempted[i].dir = d /\ attempted[i].path = p

\* every failure is in the histogram of the root it was attempted under
FailuresRecorded ==
  \A d \in Roots :
    /\ \A i \in DOMAIN attempted :
         (attempted[i].dir = d /\ ~attempted[i].success) =>
           attempted[i].tag \in DOMAIN metrics_data[d].failed_reasons
    /\ \A t \in DOMAIN metrics_data[d].failed_reasons :
         metrics_data[d].failed_reasons[t] =
           Cardinality({ i \in DOMAIN attempted :
                           /\ attempted[i].dir = d /\ ~attempted[i].success
                           /\ attempted[i].tag = t })

\* C10 as stated, its last part: when run_conversion has returned, the
\* metrics file of every root holds the counters, failures included.
C10_EveryRootPublished ==
  (pc = "idle" /\ runs > 0) =>
    \A d \in Roots : promfs[MetricsFilePath(d)] = Rendered(d)

\* C10 as amended: whatever the outcomes of the files, a run attempts every
\* eligible file of every root, records every failure in the histogram of its
\* root and reaches the publish step; unless the process is killed there, it
\* attempts the publication for every root, and the metrics file of every
\* root whose publication met no error of the operating system holds the
\* counters with those failures.
C10_BatchCompletes ==
  /\ [](pc = "roots" => <>(pc = "publish" /\ AllEligibleAttempted /\ FailuresRecorded))
  /\ [](pc = "publish" =>
          <>(\/ pc = "killed"
             \/ /\ pc = "idle"
                /\ \A d \in Roots :
                     /\ d \in pub_tried
                     /\ d \notin pub_failed => promfs[MetricsFilePath(d)] = Rendered(d)))

\* a run in which every file failed has returned and published the failures
C10_Witness ==
  /\ pc = "idle" /\ runs > 0
  /\ Len(attempted) >= 2
  /\ \A i \in DOMAIN attempted : ~attempted[i].success
  /\ \A d \in Roots :
       /\ promfs[MetricsFilePath(d)] = Rendered(d)
       /\ metrics_data[d].failed_conversions >= 1

FailedLinesOf(lines) == { l \in lines : l.family = "jpeg_to_jxl_conversions_failed_total" }

\* C11: the render of a directory whose failure histogram is empty holds
\* exactly one jpeg_to_jxl_conversions_failed_total line, reason "none" and
\* value 0; otherwise it holds exactly one such line for every reason tag of
\* the histogram, with that tag's count, and no reason "none" line.
C11_FailedFamilyLines ==
  \A d \in Roots :
    LET h == metrics_data[d].failed_reasons
        failed == FailedLinesOf(Render(d, metrics_data[d]))
    IN IF DOMAIN h = {}
         THEN failed = { Line("jpeg_to_jxl_conversions_failed_total", d, "none", 0) }
         ELSE /\ \A t \in DOMAIN h :
                   { l \in failed : l.reason = t } =
                     { Line("jpeg_to_jxl_conversions_failed_total", d, t, h[t]) }
              /\ Cardinality(failed) = Cardinality(DOMAIN h)
              /\ \A l \in failed : l.reason # "none"

\* a published file with the lines of two reason tags, one of them counted twice
C11_Witness ==
  \E d \in Roots :
    /\ promfs[MetricsFilePath(d)] # Absent
    /\ promfs[MetricsFilePath(d)].whole
    /\ Cardinality(FailedLinesOf(promfs[MetricsFilePath(d)].lines)) >= 2
    /\ \E l \in FailedLinesOf(promfs[MetricsFilePath(d)].lines) : l.value >= 2

\* the first run attempted every JPEG file that was on disk, each with success
FirstRunConvertedAll ==
  /\ \A p \in setup.present :
       \E i \in DOMAIN attempted : attempted[i].run = 1 /\ attempted[i].path = p
  /\ \A i \in DOMAIN attempted : attempted[i].run = 1 => attempted[i].success

\* C12: when the first run converted every eligible file with success, a
\* later run finds no eligible file in any directory it lists, calls
\* convert_image zero times and leaves the image directories as they are.
C12_SecondRunIsNoOp ==
  /\ []((runs >= 2 /\ FirstRunConvertedAll) =>
          /\ \A d \in UNION { WalkedDirs(r) : r \in Roots } : EligibleFilesIn(d) = {}
          /\ \A i \in DOMAIN attempted : attempted[i].run = 1
          /\ cur = NoPath)
  /\ [][(runs >= 2 /\ FirstRunConvertedAll) => fs' = fs]_vars

\* a second run over a directory whose two photos the first run converted has
\* walked the directory and returned
C12_Witness ==
  /\ runs = 2 /\ pc = "idle"
  /\ FirstRunConvertedAll
  /\ Len(attempted) = 2
  /\ setup.present = Originals

\* the directory whose counters the fold updates
FoldDir == Head(roots_left)

\* C13: the fold of a successful outcome adds 1 to total_conversions and to
\* successful_conversions, adds original_size - converted_size, negative or
\* not, to total_space_saved_bytes and to last_interval_space_saved_bytes,
\* adds original_size and converted_size to the two byte totals, and leaves
\* failed_conversions and failed_reasons as they are; 2,000,000 and 1,200,000
\* bytes add 800000 to total_space_saved_bytes.
C13_SuccessFold ==
  /\ [][(pc = "fold" /\ out.success) =>
          LET m == metrics_data[FoldDir]
              n == metrics_data'[FoldDir]
              saved == out.original_size - out.converted_size
          IN /\ n.total_conversions = m.total_conversions + 1
             /\ n.successful_conversions = m.successful_conversions + 1
             /\ n.total_space_saved_bytes = m.total_space_saved_bytes + saved
             /\ n.last_interval_space_saved_bytes = m.last_interval_space_saved_bytes + saved
             /\ n.total_original_bytes_processed =
                  m.total_original_bytes_processed + out.original_size
             /\ n.total_converted_bytes_processed =
                  m.total_converted_bytes_processed + out.converted_size
             /\ n.failed_conversions = m.failed_conversions
             /\ n.failed_reasons = m.failed_reasons]_vars
  /\ [](RecordOutcome(InitialMetrics,
                      [success |-> TRUE, original_size |-> 2000000,
                       converted_size |-> 1200000, error_tag |-> None,
                       full_error_message |-> None]).total_space_saved_bytes
          = 800000)

\* a conversion that made the file larger was folded: the saving is negative
C13_Witness ==
  \E d \in Roots :
    /\ metrics_data[d].successful_conversions >= 1
    /\ metrics_data[d].total_space_saved_bytes < 0
    /\ metrics_data[d].last_interval_space_saved_bytes < 0

\* C14: the fold of a failed outcome adds 1 to total_conversions and to
\* failed_conversions, adds 1 to the histogram at the outcome's reason tag and
\* at no other key, and leaves successful_conversions, the two saved-bytes
\* counters and the two byte totals as they are, whatever sizes the outcome
\* carries.
C14_FailureFold ==
  [][(pc = "fold" /\ ~out.success) =>
       LET m == metrics_data[FoldDir]
           n == metrics_data'[FoldDir]
           h == m.failed_reasons
           g == n.failed_reasons
       IN /\ n.total_conversions = m.total_conversions + 1
          /\ n.failed_conversions = m.failed_conversions + 1
          /\ out.error_tag # None
          /\ DOMAIN g = DOMAIN h \cup {out.error_tag}
          /\ g[out.error_tag] = (IF out.error_tag \in DOMAIN h THEN h[out.error_tag] ELSE 0) + 1
          /\ \A k \in DOMAIN h : k # out.error_tag => g[k] = h[k]
          /\ n.successful_conversions = m.successful_conversions
          /\ n.total_space_saved_bytes = m.total_space_saved_bytes
          /\ n.last_interval_space_saved_bytes = m.last_interval_space_saved_bytes
          /\ n.total_original_bytes_processed = m.total_original_bytes_processed
          /\ n.total_converted_bytes_processed = m.total_converted_bytes_processed]_vars

\* a failure of the timestamp step, after the size of the encoder's output
\* was read, was folded: the byte totals are still zero
C14_Witness ==
  /\ pc = "walk"
  /\ Len(attempted) >= 1
  /\ attempted[Len(attempted)].tag = "timestamp_preservation_failed"
  /\ \E d \in Roots :
       /\ metrics_data[d].failed_conversions >= 1
       /\ "timestamp_preservation_failed" \in DOMAIN metrics_data[d].failed_reasons
       /\ metrics_data[d].total_converted_bytes_processed = 0
       /\ metrics_data[d].total_original_bytes_processed = 0

\* C15 as stated: whichever way a convert_image call ends, the probe's
\* failure included, no file is at the temporary path after the call unless
\* its removal failed, and the cleanup does not change the outcome.
C15_CleanupOnEveryPath ==
  /\ [](Returned => (fs[Temp] = Absent \/ InTrail("cleanup_failed")))
  /\ [][pc = "cleanup" => out' = out]_vars

\* C15 as amended: the same for every call that got past the probe; a call
\* whose probe fails returns before the cleanup and leaves the temporary path
\* as it found it.
C15_CleanupAfterProbe ==
  /\ []((Returned /\ ~InTrail("probe_failed")) =>
          (fs[Temp] = Absent \/ InTrail("cleanup_failed")))
  /\ []((Returned /\ InTrail("probe_failed")) => fs[Temp] = pre_fs[Temp])
  /\ [][pc = "cleanup" => out' = out]_vars

\* a failed encoder left a partial output, which the cleanup removed
C15_Witness ==
  /\ Returned
  /\ InTrail("encoder_nonzero") /\ InTrail("cleanup_ok")
  /\ fs[Temp] = Absent
  /\ ~out.success

SuccessPath == <<"probe_ok", "encoder_ok", "getsize_ok", "rename_ok", "touch_ok">>

\* C16: a step deletes an original only when it is the input of the current
\* call, the encoder has exited 0, the temporary output was renamed and the
\* timestamp was copied, in that order, and the finalized replacement is on
\* disk; success is reported only once the original's removal has succeeded.
C16_DeleteOriginalLast ==
  /\ [][\A p \in Originals :
          (fs[p] # Absent /\ fs'[p] = Absent) =>
            /\ p = cur
            /\ trail = SuccessPath
            /\ IsReplacementOf(fs[Final], cur) /\ fs[Final].whole
            /\ fs'[Final] = fs[Final]]_vars
  /\ [](out.success =>
          /\ trail \in { SuccessPath \o <<"remove_original_ok">>,
                          SuccessPath \o <<"remove_original_ok", "no_temp">> }
          /\ fs[cur] = Absent)

\* the removal of the original has just succeeded and success is set
C16_Witness ==
  /\ pc = "cleanup"
  /\ out.success
  /\ trail = SuccessPath \o <<"remove_original_ok">>
  /\ fs[cur] = Absent /\ pre_fs[cur] # Absent
  /\ IsReplacementOf(fs[Final], cur)

FinalizeFailed == InTrail("getsize_failed") \/ InTrail("rename_failed")

TimestampStepTaken ==
  InTrail("touch_ok") \/ TouchFailed

\* C17 as stated: when the encoder exits 0 and the read of the temporary
\* output's size or the rename fails, the call returns success=False with
\* file_system_error, the timestamp copy is not invoked, the original is not
\* deleted and no temporary output remains.
C17_FinalizeFailureRemovesTemp ==
  (Returned /\ FinalizeFailed) =>
    /\ ~out.success
    /\ out.error_tag = "file_system_error"
    /\ ~TimestampStepTaken
    /\ OriginalUntouched
    /\ fs[Temp] = Absent

\* C17 as amended: ... and the temporary output is removed unless its removal
\* itself fails with an error of the operating system.
C17_FinalizeFailure ==
  (Returned /\ FinalizeFailed) =>
    /\ InTrail("encoder_ok")
    /\ ~out.success
    /\ out.error_tag = "file_system_error"
    /\ ~TimestampStepTaken
    /\ OriginalUntouched
    /\ fs[Temp] = Absent \/ InTrail("cleanup_failed")

\* the rename failed and the cleanup removed the temporary output
C17_Witness ==
  /\ Returned
  /\ InTrail("rename_failed") /\ InTrail("cleanup_ok")
  /\ out.error_tag = "file_system_error"
  /\ fs[Temp] = Absent
  /\ fs[cur] # Absent

\* C18 as stated: within one run no file is attempted twice, whatever the
\* source directories are, so that a file that fails is one attempt and one
\* failure in the counters of one directory.
C18_AtMostOneAttempt ==
  \A i, j \in DOMAIN attempted :
    (attempted[i].run = attempted[j].run /\ attempted[i].path = attempted[j].path) => i = j

\* what a convert_image call on p that succeeds makes of the directory f,
\* when the encoder writes sz bytes
Converted(f, p, sz) ==
  [f EXCEPT ![FinalJxlPath(p)] = [EncodedFile(p, sz, TRUE) EXCEPT !.mtime = f[p].mtime],
            ![p] = Absent]

JPG == Path("/r/sub", <<"photo", "JPG">>)
jpeg == Path("/r/sub", <<"photo", "jpeg">>)

\* C19 as stated: when a run has converted the two photos of a directory,
\* each with the same behaviour of the encoder and of touch in every order,
\* the counters and the directory are what either order of the two gives.
C19_OrderInsensitive ==
  (/\ pc = "publish" /\ runs = 1
   /\ setup.present = Originals
   /\ Len(attempted) = 2
   /\ \A i \in DOMAIN attempted : attempted[i].success) =>
    \E sz \in [Originals -> 1..MaxConvSize] :
      /\ \A d \in Roots :
           /\ metrics_data[d].successful_conversions = 2
           /\ metrics_data[d].total_converted_bytes_processed = sz[JPG] + sz[jpeg]
      /\ fs = Converted(Converted(fs0, JPG, sz[JPG]), jpeg, sz[jpeg])
      /\ fs = Converted(Converted(fs0, jpeg, sz[jpeg]), JPG, sz[JPG])

\* C20: a returned outcome has a reason tag and a detail message exactly when
\* success is False, and no histogram has the key unknown_error.
C20_TagIffFailure ==
  /\ Returned =>
       /\ out.success <=> out.error_tag = None
       /\ out.error_tag = None <=> out.full_error_message = None
  /\ "unknown_error" \notin HistogramKeys

\* a success was returned after a failure was folded
C20_Witness ==
  /\ Returned
  /\ out.success /\ out.error_tag = None
  /\ HistogramKeys # {}

PublishPcs == {"publish", "pub_write", "pub_replace"}

\* C21: a step writes to the metrics directory only in the publish step, when
\* the outer loop is over and every eligible file of every root was attempted
\* in this run; the publication of a root is attempted once in a run; and a
\* run that has returned has attempted it for every root, also when the
\* publication of some root failed.
C21_PublishAfterAllFiles ==
  /\ [][promfs' # promfs =>
          /\ pc \in PublishPcs
          /\ roots_left = << >> /\ walk_dirs = << >> /\ files = {} /\ cur = NoPath
          /\ AllEligibleAttempted]_vars
  /\ [][(pc = "publish" /\ pub_left # << >> /\ pc' # "killed") =>
          /\ Head(pub_left) \notin pub_tried
          /\ pub_tried' = pub_tried \cup {Head(pub_left)}]_vars
  /\ []((pc = "idle" /\ runs > 0) => (pub_tried = Roots /\ pub_left = << >>))

\* the publication of the first root failed and that of the second was done,
\* after a file was attempted under each
C21_Witness ==
  /\ pc = "idle" /\ runs > 0
  /\ SourceDirs = <<"/r", "/r/sub">>
  /\ pub_failed = {"/r"}
  /\ promfs[MetricsFilePath("/r")] = Absent
  /\ promfs[MetricsFilePath("/r/sub")] = Rendered("/r/sub")
  /\ Len(attempted) >= 2

RECURSIVE SavedUpTo(_, _, _)
\* the sum of original_size - converted_size over the first n convert_image
\* calls that were made for directory d in run r and succeeded
SavedUpTo(n, d, r) ==
  IF n = 0 THEN 0
  ELSE SavedUpTo(n - 1, d, r) +
       (IF attempted[n].dir = d /\ attempted[n].run = r /\ attempted[n].success
          THEN attempted[n].original_size - attempted[n].converted_size
          ELSE 0)

SavedInRun(d, r) == SavedUpTo(Len(attempted), d, r)

\* C22: the first step of a run_conversion call sets every root's
\* last_interval_space_saved_bytes to zero and changes no other counter; at
\* publish time it is the sum of original - converted over the files
\* converted with success in that run, and in the first run of an instance it
\* equals total_space_saved_bytes.
C22_LastIntervalReset ==
  /\ [][(pc = "idle" /\ pc' # "idle") =>
          /\ pc' = "roots"
          /\ \A d \in Roots :
               metrics_data'[d] =
                 [metrics_data[d] EXCEPT !.last_interval_space_saved_bytes = 0]]_vars
  /\ [](pc \in PublishPcs =>
          \A d \in Roots :
            /\ metrics_data[d].last_interval_space_saved_bytes = SavedInRun(d, runs)
            /\ runs = 1 =>
                 metrics_data[d].last_interval_space_saved_bytes =
                   metrics_data[d].total_space_saved_bytes)

\* the second run publishes a last-interval saving that is neither zero nor
\* the cumulative saving
C22_Witness ==
  /\ pc = "publish" /\ runs = 2
  /\ \E d \in Roots :
       /\ metrics_data[d].last_interval_space_saved_bytes # 0
       /\ metrics_data[d].last_interval_space_saved_bytes #
            metrics_data[d].total_space_saved_bytes
       /\ metrics_data[d].successful_conversions = 2

RECURSIVE CounterSum(_)
\* the sum of the counts of a histogram
CounterSum(c) ==
  IF DOMAIN c = {} THEN 0
  ELSE LET k == CHOOSE x \in DOMAIN c : TRUE
       IN c[k] + CounterSum([x \in DOMAIN c \ {k} |-> c[x]])

\* C23: in every reachable state and for every root, the counts of the
\* failure-reason histogram sum to failed_conversions, and
\* total_space_saved_bytes is total_original_bytes_processed minus
\* total_converted_bytes_processed.
C23_CountersAgree ==
  \A d \in Roots :
    /\ CounterSum(metrics_data[d].failed_reasons) = metrics_data[d].failed_conversions
    /\ metrics_data[d].total_space_saved_bytes =
         metrics_data[d].total_original_bytes_processed -
           metrics_data[d].total_converted_bytes_processed

\* a histogram with a reason counted twice, next to a conversion that made
\* the file larger
C23_Witness ==
  \E d \in Roots :
    /\ metrics_data[d].failed_conversions >= 2
    /\ \E k \in DOMAIN metrics_data[d].failed_reasons : metrics_data[d].failed_reasons[k] >= 2
    /\ metrics_data[d].successful_conversions >= 1
    /\ metrics_data[d].total_space_saved_bytes < 0

====
